---- MODULE Spec2Model ----
(***************************************************************************)
(* Model of the code-execution sandbox of code-execution-with-mcp:         *)
(* CodeExecutor.validate_code and CodeExecutor.execute (code_executor.py), *)
(* together with the child process that execute() spawns and the           *)
(* temporary-file namespace it writes into.                                *)
(*                                                                         *)
(* Text is modelled as a sequence of one-character (or one-token) strings, *)
(* bytes as a sequence of integers 0..255, Python's None as the empty      *)
(* option <<>> and a present value x as the one-element option <<x>>.      *)
(***************************************************************************)
EXTENDS Integers, Sequences, FiniteSets, TLC

None == <<>>
Some(x) == <<x>>

(***************************************************************************)
(* Bounds of the model.                                                    *)
(***************************************************************************)
\* number of execute() calls issued on the one CodeExecutor
NumCalls == 2
\* number of names the temporary-file namespace can hand out
NumNames == 2

\* largest max_retries a run() call is given
MaxRetries == 2

\* number of AirtableMCPClient objects created
NumClients == 2
\* number of requests the clients send
MaxRequests == 2
\* length of the text given to _indent_code, and the largest levels
MaxLen == 4
MaxLevels == 2

Calls == 1..NumCalls
Clients == 1..NumClients
Names == 1..NumNames

(***************************************************************************)
(* CodeExecutor.__init__                                                   *)
(***************************************************************************)
\* constructor arguments tried: a short timeout and the default of 30
Timeouts == {5, 30}

dangerous_imports ==
    { <<"o","s">>,
      <<"s","u","b","p","r","o","c","e","s","s">>,
      <<"s","y","s">>,
      <<"_","_","i","m","p","o","r","t","_","_">>,
      <<"e","v","a","l">>,
      <<"e","x","e","c">>,
      <<"o","p","e","n">>,
      <<"f","i","l","e">>,
      <<"i","n","p","u","t">>,
      <<"c","o","m","p","i","l","e">>,
      <<"r","e","l","o","a","d">> }

(***************************************************************************)
(* Candidate programs.  A program is what ast.parse makes of it: either a  *)
(* SyntaxError with the parser's message, or another exception of the      *)
(* parser (RecursionError or MemoryError on deep nesting,                  *)
(* UnicodeEncodeError on a lone surrogate), or the import nodes of the     *)
(* tree in ast.walk order.                                                 *)
(***************************************************************************)
Import(names) == [type |-> "Import", names |-> names, module |-> None]
ImportFrom(module, names) == [type |-> "ImportFrom", names |-> names, module |-> module]

Unparsable(msg) ==
    [syntax_error |-> Some(msg), parser_error |-> None, tree |-> <<>>]
ParserFails(e) ==
    [syntax_error |-> None, parser_error |-> Some(e), tree |-> <<>>]
Parsed(nodes) ==
    [syntax_error |-> None, parser_error |-> None, tree |-> nodes]

n_json == <<"j","s","o","n">>
n_os == <<"o","s">>
n_sys == <<"s","y","s">>
n_os_path == <<"o","s",".","p","a","t","h">>
n_osprey == <<"o","s","p","r","e","y">>
n_signal == <<"s","i","g","n","a","l">>
n_join == <<"j","o","i","n">>
n_asyncio == <<"a","s","y","n","c","i","o">>
n_subprocess == <<"s","u","b","p","r","o","c","e","s","s">>
n_pathlib == <<"p","a","t","h","l","i","b">>
n_Path == <<"P","a","t","h">>

\* print("hi")
P_plain == Parsed(<<>>)
\* import json, signal
P_json == Parsed(<< Import(<<n_json, n_signal>>) >>)
\* from . import os        (relative import: node.module is None)
P_relative == Parsed(<< ImportFrom(None, <<n_os>>) >>)
\* import os
P_os == Parsed(<< Import(<<n_os>>) >>)
\* import json, sys
P_json_sys == Parsed(<< Import(<<n_json, n_sys>>) >>)
\* from os.path import join
P_from_os_path == Parsed(<< ImportFrom(Some(n_os_path), <<n_join>>) >>)
\* import json  /  def f(): import osprey
P_nested_osprey == Parsed(<< Import(<<n_json>>), Import(<<n_osprey>>) >>)
\* from asyncio import subprocess
P_from_asyncio == Parsed(<< ImportFrom(Some(n_asyncio), <<n_subprocess>>) >>)
\* print("hi"
P_syntax == Unparsable(<<"'(' was never closed">>)
\* "a" + ".b" * 100000
P_deep == ParserFails("RecursionError")

Programs ==
    { P_plain, P_json, P_relative, P_os, P_json_sys, P_from_os_path,
      P_nested_osprey, P_from_asyncio, P_syntax, P_deep }

(***************************************************************************)
(* CodeExecutor.validate_code                                              *)
(***************************************************************************)
\* t in s  (Python substring test on str)
IsSubstring(t, s) ==
    \E i \in 0..(Len(s) - Len(t)) : SubSeq(s, i + 1, i + Len(t)) = t

\* any(danger in name for danger in self.dangerous_imports)
IsDangerous(name) == \E danger \in dangerous_imports : IsSubstring(danger, name)

\* for alias in node.names: the first alias with a dangerous name, if any
RECURSIVE FirstDangerousAlias(_)
FirstDangerousAlias(names) ==
    IF names = <<>> THEN None
    ELSE IF IsDangerous(Head(names)) THEN Some(Head(names))
    ELSE FirstDangerousAlias(Tail(names))

\* the body of the loop over ast.walk(tree) for one node
CheckNode(node) ==
    IF node.type = "Import" THEN FirstDangerousAlias(node.names)
    ELSE IF node.module # None /\ IsDangerous(node.module[1]) THEN node.module
    ELSE None

\* for node in ast.walk(tree): the first forbidden module, if any
RECURSIVE WalkTree(_)
WalkTree(nodes) ==
    IF nodes = <<>> THEN None
    ELSE IF CheckNode(Head(nodes)) # None THEN CheckNode(Head(nodes))
    ELSE WalkTree(Tail(nodes))

\* the pair validate_code returns, or the exception it raises: ast.parse is
\* guarded by "except SyntaxError" alone
validate_code(code) ==
    IF code.parser_error # None
    THEN [raised |-> code.parser_error, is_valid |-> FALSE, error |-> None]
    ELSE IF code.syntax_error # None
    THEN [raised |-> None,
          is_valid |-> FALSE,
          error |-> Some(<<"Syntax error: ">> \o code.syntax_error[1])]
    ELSE IF WalkTree(code.tree) # None
    THEN [raised |-> None,
          is_valid |-> FALSE,
          error |-> Some(<<"Forbidden import: ">> \o WalkTree(code.tree)[1])]
    ELSE [raised |-> None, is_valid |-> TRUE, error |-> None]

(***************************************************************************)
(* The file execute() writes (lines 80-94): a prelude of imports, then the *)
(* fragment as the body of "async def main()".  As for a program, the      *)
(* model keeps the import nodes of the file.                               *)
(***************************************************************************)
\* import asyncio / import sys / import json / from pathlib import Path
Prelude ==
    << Import(<<n_asyncio>>), Import(<<n_sys>>), Import(<<n_json>>),
       ImportFrom(Some(n_pathlib), <<n_Path>>) >>

full_code(code) == Prelude \o code.tree

\* the part of a dotted module name before its first dot
TopLevel(name) ==
    IF \E i \in 1..Len(name) : name[i] = "."
    THEN SubSeq(name, 1,
                (CHOOSE i \in 1..Len(name) :
                    /\ name[i] = "."
                    /\ \A j \in 1..(i - 1) : name[j] # ".") - 1)
    ELSE name

\* the names an import statement binds in the namespace it is executed in:
\* "import a.b" binds a, "from m import x" binds x
BoundNames(node) ==
    IF node.type = "Import"
    THEN { TopLevel(node.names[i]) : i \in 1..Len(node.names) }
    ELSE { node.names[i] : i \in 1..Len(node.names) }

\* the names the imports of a sequence of import nodes bind
Namespace(nodes) ==
    UNION { BoundNames(nodes[i]) : i \in 1..Len(nodes) }

(***************************************************************************)
(* Text helpers of execute(): str() of the timeout in the f-string of the  *)
(* timeout message, and bytes.decode('utf-8') of the captured streams.     *)
(***************************************************************************)
Digits == <<"0","1","2","3","4","5","6","7","8","9">>

\* str(n) for a non-negative integer
RECURSIVE str(_)
str(n) ==
    IF n < 10 THEN << Digits[n + 1] >>
    ELSE str(n \div 10) \o << Digits[(n % 10) + 1] >>

\* the character of a code point, for the code points the model's bytes encode
chr(cp) ==
    CASE cp \in 48..57 -> Digits[cp - 47]
      [] cp = 104 -> "h"
      [] cp = 233 -> "e-acute"
      [] OTHER -> "?"

\* bytes.decode('utf-8'): the text, or None when it raises UnicodeDecodeError.
\* One-byte and two-byte sequences are decoded; every other lead byte of the
\* model's alphabet (0xFF) is invalid in UTF-8.
RECURSIVE decode(_)
decode(bytes) ==
    IF bytes = <<>> THEN Some(<<>>)
    ELSE IF Head(bytes) < 128
    THEN IF decode(Tail(bytes)) = None THEN None
         ELSE Some(<< chr(Head(bytes)) >> \o decode(Tail(bytes))[1])
    ELSE IF /\ Head(bytes) \in 194..223
            /\ Len(bytes) >= 2
            /\ bytes[2] \in 128..191
    THEN IF decode(Tail(Tail(bytes))) = None THEN None
         ELSE Some(<< chr((Head(bytes) - 192) * 64 + (bytes[2] - 128)) >>
                   \o decode(Tail(Tail(bytes)))[1])
    ELSE None

(***************************************************************************)
(* The results execute() builds.                                           *)
(***************************************************************************)
\* variant of RejectedResult: the reason of the validator is not passed on
RejectedResult_generic(error) ==
    [success |-> FALSE,
     stdout |-> <<>>,
     stderr |-> <<"Code validation failed">>,
     exit_code |-> 1]

\* code_executor.py:70-75
RejectedResult(error) ==
    [success |-> FALSE, stdout |-> <<>>, stderr |-> error, exit_code |-> 1]

\* variant of CompletedResult: success is taken to be "not killed by a signal"
CompletedResult_nonneg(rc, stdout, stderr) ==
    [success |-> (rc >= 0), stdout |-> stdout, stderr |-> stderr, exit_code |-> rc]

\* code_executor.py:114-119
CompletedResult(rc, stdout, stderr) ==
    [success |-> (rc = 0), stdout |-> stdout, stderr |-> stderr, exit_code |-> rc]

\* code_executor.py:124-129
TimeoutResult(t) ==
    [success |-> FALSE,
     stdout |-> <<>>,
     stderr |-> <<"Execution timeout after ">> \o str(t) \o <<" seconds">>,
     exit_code |-> -1]

(***************************************************************************)
(* State.  One CodeExecutor, the execute() coroutines called on it, the    *)
(* child process of each call and the temporary directory.                 *)
(***************************************************************************)
VARIABLES
    timeout,     \* self.timeout
    pc,          \* pc[c]: where execute() call c stands
    code,        \* code[c]: the argument of call c (an option)
    f_name,      \* f_name[c]: f.name, the name NamedTemporaryFile chose (0: none)
    temp_file,   \* temp_file[c]: the local temp_file, a name (0 before line 96)
    files,       \* files[n]: the temporary file n is absent, partial or complete
    proc,        \* proc[c]: the child of call c: none, running, exited, reaped
    signalled,   \* signalled[c]: SIGKILL was sent to the child and is pending
    status,      \* status[c]: the exit status of the terminated child (an option)
    in_time,     \* in_time[c]: the child terminated before the deadline expired
    holder,      \* holder[c]: a process the child started that holds its pipes open
    writes,      \* writes[c]: number of write() calls the child has made
    out,         \* out[c]: the bytes the child wrote to its stdout pipe
    err,         \* err[c]: the bytes the child wrote to its stderr pipe
    result,      \* result[c]: the dictionary call c returned (an option)
    exc,         \* exc[c]: the exception call c raised (an option)
    log,         \* log[c]: the steps execute() call c has taken, in order
    waited,      \* waited[c]: the timeout call c passed to wait_for (0: none yet)
    verdicts,    \* verdicts[p]: what validate_code(p), called directly, returned
    \* AirtableMCPAgent.run (airtable_agent.py)
    a_pc,        \* where the run() call stands
    max_retries, \* its argument max_retries
    attempt,     \* its local attempt
    last_error,  \* its local last_error (an option)
    history,     \* the roles of self.conversation_history
    prompts,     \* the current_msg of every _generate_code call, in order
    failures,    \* the stderr of every execution that failed, in order
    fault,       \* the exception _generate_code or execute() raised (an option)
    run_result,  \* the dictionary run() returned (an option)
    run_exc,     \* the exception run() raised (an option)
    \* airtable_client.py
    session,        \* session[k]: self.session of client k, or "unborn"
    request_id,     \* request_id[k]: self._request_id of client k
    global_client,  \* _global_client: a client, or 0 for None
    block,          \* block[k]: the airtable_client block that created client k
    sent,           \* the requests posted to the server, in order
    pending,        \* the positions in sent of the requests not yet answered
    outcome,        \* what the last call of a tool function did (an option)
    \* code_executor.py, _indent_code
    text,           \* the argument code of _indent_code, a sequence of characters
    levels,         \* the argument levels
    indented        \* what _indent_code returned (an option)

\* the state of the executor, of its calls, their children and files
executor_vars ==
    << timeout, pc, code, f_name, temp_file, files, proc, signalled, status,
       in_time, holder, writes, out, err, result, exc, log, waited >>

agent_vars ==
    << a_pc, max_retries, attempt, last_error, history, prompts, failures,
       fault, run_result, run_exc >>

client_vars ==
    << session, request_id, global_client, block, sent, pending, outcome >>

indent_vars == << text, levels, indented >>

\* the state outside the executor
outside == << agent_vars, client_vars, indent_vars >>

\* the state outside execute(): no step of execute() touches it
others == << verdicts, outside >>

vars == << executor_vars, others >>

\* the statuses a child terminates with by itself: clean exit, failure, and
\* death by a signal it received (returncode -N for signal N; 1 is SIGHUP)
ExitStatuses == {0, 1, -1}
\* returncode of a child killed by process.kill() (SIGKILL is signal 9)
SIGKILLED == 0 - 9
\* what one write() of the child puts into a pipe: U+00E9 in UTF-8 ("\xc3\xa9")
\* and a byte that is not UTF-8 ("\xff")
Chunks == { <<195, 169>>, <<255>> }
\* number of write() calls a child makes
MaxWrites == 1

\* the programs handed to execute()
Fragments ==
    { P_plain, P_relative, P_from_asyncio, P_os, P_json_sys, P_from_os_path,
      P_nested_osprey, P_syntax, P_deep }

Finished(c) == pc[c] \in {"returned", "raised"}

\* process.returncode as the parent sees it: set once the child is reaped
returncode(c) == IF proc[c] = "reaped" THEN status[c] ELSE None

Logged(c, e) == \E i \in 1..Len(log[c]) : log[c][i] = e

\* position of the first occurrence of step e in the log of call c (0: none)
At(c, e) ==
    IF Logged(c, e)
    THEN CHOOSE i \in 1..Len(log[c]) :
            /\ log[c][i] = e
            /\ \A j \in 1..(i - 1) : log[c][j] # e
    ELSE 0

InitExecutor ==
    /\ timeout \in Timeouts
    /\ pc = [c \in Calls |-> "idle"]
    /\ code = [c \in Calls |-> None]
    /\ f_name = [c \in Calls |-> 0]
    /\ temp_file = [c \in Calls |-> 0]
    /\ files = [n \in Names |-> "absent"]
    /\ proc = [c \in Calls |-> "none"]
    /\ signalled = [c \in Calls |-> FALSE]
    /\ status = [c \in Calls |-> None]
    /\ in_time = [c \in Calls |-> FALSE]
    /\ holder = [c \in Calls |-> "none"]
    /\ writes = [c \in Calls |-> 0]
    /\ out = [c \in Calls |-> <<>>]
    /\ err = [c \in Calls |-> <<>>]
    /\ result = [c \in Calls |-> None]
    /\ exc = [c \in Calls |-> None]
    /\ log = [c \in Calls |-> <<>>]
    /\ waited = [c \in Calls |-> 0]

\* no direct call of validate_code has been made
NoVerdicts == verdicts = [p \in Programs |-> {}]

\* no run() call has been made on the agent
NoRun ==
    /\ a_pc = "idle"
    /\ max_retries = 0
    /\ attempt = 0
    /\ last_error = None
    /\ history = <<>>
    /\ prompts = <<>>
    /\ failures = <<>>
    /\ fault = None
    /\ run_result = None
    /\ run_exc = None

\* the module airtable_client has been imported: no client exists and
\* _global_client is None (line 163)
NoClients ==
    /\ session = [k \in Clients |-> "unborn"]
    /\ request_id = [k \in Clients |-> 0]
    /\ global_client = 0
    /\ block = [k \in Clients |-> "none"]
    /\ sent = <<>>
    /\ pending = {}
    /\ outcome = None

\* _indent_code has not been called
NoIndent ==
    /\ text = <<>>
    /\ levels = 0
    /\ indented = None

Init ==
    /\ InitExecutor
    /\ NoVerdicts
    /\ NoRun
    /\ NoClients
    /\ NoIndent

\* calls are issued in the order of their numbers
MayStart(c) ==
    /\ pc[c] = "idle"
    /\ \A d \in Calls : d < c => pc[d] # "idle"

\* tempfile.NamedTemporaryFile creates a file under a name no existing file
\* has.  The names are interchangeable: the model takes the least free one.
HasFreshName == \E n \in Names : files[n] = "absent"

\* variant of FreshName: the name is not checked against the existing files
FreshName_any == CHOOSE n \in Names : TRUE

FreshName ==
    CHOOSE n \in Names :
        /\ files[n] = "absent"
        /\ \A m \in Names : m < n => files[m] # "absent"

(***************************************************************************)
(* execute(), lines 67-75: the validator rejects, the call returns.        *)
(***************************************************************************)
Reject(c, prog) ==
    /\ MayStart(c)
    /\ validate_code(prog).raised = None
    /\ ~validate_code(prog).is_valid
    /\ code' = [code EXCEPT ![c] = Some(prog)]
    /\ result' = [result EXCEPT ![c] =
                     Some(RejectedResult(validate_code(prog).error[1]))]
    /\ pc' = [pc EXCEPT ![c] = "returned"]
    /\ log' = [log EXCEPT ![c] = @ \o <<"rejected", "return">>]
    /\ UNCHANGED << timeout, f_name, temp_file, files, proc, signalled, status,
                    in_time, holder, writes, out, err, exc >>
    /\ UNCHANGED << waited, others >>

(***************************************************************************)
(* execute(), line 68: validate_code raises; the exception leaves          *)
(* execute().                                                              *)
(***************************************************************************)
ValidateRaises(c, prog) ==
    /\ MayStart(c)
    /\ validate_code(prog).raised # None
    /\ code' = [code EXCEPT ![c] = Some(prog)]
    /\ exc' = [exc EXCEPT ![c] = validate_code(prog).raised]
    /\ pc' = [pc EXCEPT ![c] = "raised"]
    /\ log' = [log EXCEPT ![c] = @ \o <<"raise">>]
    /\ UNCHANGED << timeout, f_name, temp_file, files, proc, signalled, status,
                    in_time, holder, writes, out, err, result >>
    /\ UNCHANGED << waited, others >>

\* variant of CreateTempFile: the verdict of the validator is not consulted
CreateTempFile_ungated(c, prog) ==
    /\ MayStart(c)
    /\ HasFreshName
    /\ code' = [code EXCEPT ![c] = Some(prog)]
    /\ files' = [files EXCEPT ![FreshName] = "complete"]
    /\ f_name' = [f_name EXCEPT ![c] = FreshName]
    /\ temp_file' = [temp_file EXCEPT ![c] = FreshName]
    /\ pc' = [pc EXCEPT ![c] = "spawning"]
    /\ log' = [log EXCEPT ![c] = @ \o <<"accepted", "create", "write">>]
    /\ UNCHANGED << timeout, proc, signalled, status, in_time, holder, writes,
                    out, err, result, exc >>
    /\ UNCHANGED << waited, others >>

(***************************************************************************)
(* execute(), lines 77-100: the temporary file is created under a fresh    *)
(* name, written and closed, and the call suspends in                      *)
(* create_subprocess_exec.                                                 *)
(***************************************************************************)
CreateTempFile(c, prog) ==
    /\ MayStart(c)
    /\ validate_code(prog).is_valid
    /\ HasFreshName
    /\ code' = [code EXCEPT ![c] = Some(prog)]
    /\ files' = [files EXCEPT ![FreshName] = "complete"]
    /\ f_name' = [f_name EXCEPT ![c] = FreshName]
    /\ temp_file' = [temp_file EXCEPT ![c] = FreshName]
    /\ pc' = [pc EXCEPT ![c] = "spawning"]
    /\ log' = [log EXCEPT ![c] = @ \o <<"accepted", "create", "write">>]
    /\ UNCHANGED << timeout, proc, signalled, status, in_time, holder, writes,
                    out, err, result, exc >>
    /\ UNCHANGED << waited, others >>

(***************************************************************************)
(* execute(), lines 78-96: the file is created, but building or writing    *)
(* full_code raises (os.getcwd() of a removed directory, a full disk).     *)
(* The with block closes the file; nothing removes it (delete=False, and   *)
(* the try of line 98 is not entered).                                     *)
(***************************************************************************)
WriteFails(c, prog) ==
    /\ MayStart(c)
    /\ validate_code(prog).is_valid
    /\ HasFreshName
    /\ code' = [code EXCEPT ![c] = Some(prog)]
    /\ files' = [files EXCEPT ![FreshName] = "partial"]
    /\ f_name' = [f_name EXCEPT ![c] = FreshName]
    /\ exc' = [exc EXCEPT ![c] = Some("OSError")]
    /\ pc' = [pc EXCEPT ![c] = "raised"]
    /\ log' = [log EXCEPT ![c] = @ \o <<"accepted", "create", "raise">>]
    /\ UNCHANGED << timeout, temp_file, proc, signalled, status, in_time,
                    holder, writes, out, err, result >>
    /\ UNCHANGED << waited, others >>

\* variant of Unlinked: the finally block does not remove the file
Unlinked_kept(c, ok) == files

(***************************************************************************)
(* The finally block, lines 131-136: os.unlink(temp_file); when it raises, *)
(* the bare except swallows it and the file stays.                         *)
(***************************************************************************)
Unlinked(c, ok) ==
    IF ok THEN [files EXCEPT ![temp_file[c]] = "absent"] ELSE files

UnlinkEvent(ok) == IF ok THEN "unlink" ELSE "unlink_failed"

\* variant of ReturnFrom: an exception of os.unlink replaces the result
ReturnFrom_unswallowed(c, events, r, ok) ==
    /\ files' = Unlinked(c, ok)
    /\ result' = [result EXCEPT ![c] = IF ok THEN Some(r) ELSE @]
    /\ exc' = [exc EXCEPT ![c] = IF ok THEN @ ELSE Some("OSError")]
    /\ pc' = [pc EXCEPT ![c] = IF ok THEN "returned" ELSE "raised"]
    /\ log' = [log EXCEPT ![c] =
                 @ \o events
                   \o <<UnlinkEvent(ok), IF ok THEN "return" ELSE "raise">>]

\* control leaves the try block of call c with the result r
ReturnFrom(c, events, r, ok) ==
    /\ files' = Unlinked(c, ok)
    /\ result' = [result EXCEPT ![c] = Some(r)]
    /\ pc' = [pc EXCEPT ![c] = "returned"]
    /\ log' = [log EXCEPT ![c] = @ \o events \o <<UnlinkEvent(ok), "return">>]
    /\ UNCHANGED exc

\* control leaves the try block of call c with the exception e
RaiseFrom(c, events, e, ok) ==
    /\ files' = Unlinked(c, ok)
    /\ exc' = [exc EXCEPT ![c] = Some(e)]
    /\ pc' = [pc EXCEPT ![c] = "raised"]
    /\ log' = [log EXCEPT ![c] = @ \o events \o <<UnlinkEvent(ok), "raise">>]
    /\ UNCHANGED result

\* what every step after line 96 leaves alone
Frame96 == UNCHANGED << timeout, code, f_name, temp_file, others >>

\* what every step after line 112 leaves alone
Frame == Frame96 /\ UNCHANGED waited

\* variant of SpawnOK: wait_for is given the default of 30 seconds
SpawnOK_default(c) ==
    /\ pc[c] = "spawning"
    /\ proc' = [proc EXCEPT ![c] = "running"]
    /\ waited' = [waited EXCEPT ![c] = 30]
    /\ pc' = [pc EXCEPT ![c] = "communicating"]
    /\ log' = [log EXCEPT ![c] = @ \o <<"spawn">>]
    /\ Frame96
    /\ UNCHANGED << files, signalled, status, in_time, holder, writes, out,
                    err, result, exc >>

(***************************************************************************)
(* execute(), lines 100-112: create_subprocess_exec returns the process,   *)
(* and the call suspends in wait_for(process.communicate(),                *)
(* timeout=self.timeout).                                                  *)
(***************************************************************************)
SpawnOK(c) ==
    /\ pc[c] = "spawning"
    /\ proc' = [proc EXCEPT ![c] = "running"]
    /\ waited' = [waited EXCEPT ![c] = timeout]
    /\ pc' = [pc EXCEPT ![c] = "communicating"]
    /\ log' = [log EXCEPT ![c] = @ \o <<"spawn">>]
    /\ Frame96
    /\ UNCHANGED << files, signalled, status, in_time, holder, writes, out,
                    err, result, exc >>

(***************************************************************************)
(* execute(), lines 100-105 and 131-136: create_subprocess_exec raises     *)
(* (FileNotFoundError, PermissionError).  No except clause of execute()    *)
(* matches; the finally block runs and the exception leaves execute().     *)
(***************************************************************************)
SpawnFails(c, ok) ==
    /\ pc[c] = "spawning"
    /\ RaiseFrom(c, <<"spawn_failed">>, "OSError", ok)
    /\ Frame
    /\ UNCHANGED << proc, signalled, status, in_time, holder, writes, out,
                    err >>

(***************************************************************************)
(* The child process and what it starts.  Its pipes are read by            *)
(* communicate() alone; what it writes after execute() has finished is     *)
(* read by nobody and is left out.                                         *)
(***************************************************************************)
\* the child writes a chunk to its stdout (stream 1) or stderr (stream 2)
ChildWrite(c, stream, chunk) ==
    /\ proc[c] = "running"
    /\ ~Finished(c)
    /\ writes[c] < MaxWrites
    /\ writes' = [writes EXCEPT ![c] = @ + 1]
    /\ out' = [out EXCEPT ![c] = IF stream = 1 THEN @ \o chunk ELSE @]
    /\ err' = [err EXCEPT ![c] = IF stream = 2 THEN @ \o chunk ELSE @]
    /\ Frame
    /\ UNCHANGED << pc, files, proc, signalled, status, in_time, holder,
                    result, exc, log >>

\* the child starts a process that inherits its stdout and stderr pipes
ChildStartsHolder(c) ==
    /\ proc[c] = "running"
    /\ ~Finished(c)
    /\ holder[c] = "none"
    /\ holder' = [holder EXCEPT ![c] = "alive"]
    /\ Frame
    /\ UNCHANGED << pc, files, proc, signalled, status, in_time, writes, out,
                    err, result, exc, log >>

\* that process ends and its copies of the pipes are closed
HolderExits(c) ==
    /\ holder[c] = "alive"
    /\ holder' = [holder EXCEPT ![c] = "gone"]
    /\ Frame
    /\ UNCHANGED << pc, files, proc, signalled, status, in_time, writes, out,
                    err, result, exc, log >>

\* the child terminates by itself with status st
ChildExits(c, st) ==
    /\ proc[c] = "running"
    /\ proc' = [proc EXCEPT ![c] = "exited"]
    /\ status' = [status EXCEPT ![c] = Some(st)]
    /\ in_time' = [in_time EXCEPT ![c] = (pc[c] = "communicating")]
    /\ signalled' = [signalled EXCEPT ![c] = FALSE]
    /\ Frame
    /\ UNCHANGED << pc, files, holder, writes, out, err, result, exc, log >>

\* the pending SIGKILL terminates the child
ChildKilled(c) ==
    /\ proc[c] = "running"
    /\ signalled[c]
    /\ proc' = [proc EXCEPT ![c] = "exited"]
    /\ status' = [status EXCEPT ![c] = Some(SIGKILLED)]
    /\ signalled' = [signalled EXCEPT ![c] = FALSE]
    /\ Frame
    /\ UNCHANGED << pc, files, in_time, holder, writes, out, err, result, exc,
                    log >>

(***************************************************************************)
(* The event loop of the parent reaps the terminated child (the child      *)
(* watcher's waitpid), which sets process.returncode.                      *)
(***************************************************************************)
Reaped(c) ==
    /\ proc[c] = "exited"
    /\ proc' = [proc EXCEPT ![c] = "reaped"]
    /\ Frame
    /\ UNCHANGED << pc, files, signalled, status, in_time, holder, writes, out,
                    err, result, exc, log >>

\* variant of CommunicateReturns: the captured output is kept in one buffer
\* that the calls of the executor share and append to
CommunicateReturns_shared(c, ok) ==
    /\ pc[c] = "communicating"
    /\ proc[c] = "reaped"
    /\ holder[c] # "alive"
    /\ IF decode(out[1] \o out[c]) # None /\ decode(err[c]) # None
       THEN ReturnFrom(c, <<"communicate_done">>,
                       CompletedResult(returncode(c)[1],
                                       decode(IF c = 1 THEN out[c]
                                              ELSE out[1] \o out[c])[1],
                                       decode(err[c])[1]), ok)
       ELSE RaiseFrom(c, <<"communicate_done">>, "UnicodeDecodeError", ok)
    /\ Frame
    /\ UNCHANGED << proc, signalled, status, in_time, holder, writes, out,
                    err >>

(***************************************************************************)
(* execute(), lines 109-119: communicate() completes within the timeout:   *)
(* both pipes are at end of file (the child and every process holding a    *)
(* copy of them have closed them) and the child is reaped.  The streams    *)
(* are decoded; a stream that is not UTF-8 raises UnicodeDecodeError.      *)
(***************************************************************************)
CommunicateReturns(c, ok) ==
    /\ pc[c] = "communicating"
    /\ proc[c] = "reaped"
    /\ holder[c] # "alive"
    /\ IF decode(out[c]) # None /\ decode(err[c]) # None
       THEN ReturnFrom(c, <<"communicate_done">>,
                       CompletedResult(returncode(c)[1], decode(out[c])[1],
                                       decode(err[c])[1]), ok)
       ELSE RaiseFrom(c, <<"communicate_done">>, "UnicodeDecodeError", ok)
    /\ Frame
    /\ UNCHANGED << proc, signalled, status, in_time, holder, writes, out,
                    err >>

(***************************************************************************)
(* execute(), lines 121-123: wait_for raises TimeoutError while            *)
(* process.returncode is not set: process.kill() sends SIGKILL to the      *)
(* child (to no effect when the child has terminated), and the call        *)
(* suspends in process.wait().                                             *)
(***************************************************************************)
DeadlineExpires(c) ==
    /\ pc[c] = "communicating"
    /\ proc[c] # "reaped"
    /\ signalled' = [signalled EXCEPT ![c] = (proc[c] = "running")]
    /\ pc' = [pc EXCEPT ![c] = "reaping"]
    /\ log' = [log EXCEPT ![c] = @ \o <<"timeout", "kill">>]
    /\ Frame
    /\ UNCHANGED << files, proc, status, in_time, holder, writes, out, err,
                    result, exc >>

(***************************************************************************)
(* execute(), lines 121-136: wait_for raises TimeoutError when the event   *)
(* loop has reaped the child (communicate() still waits for the end of     *)
(* file of a pipe, or has not resumed yet): process.kill() finds           *)
(* returncode set and sends nothing, process.wait() returns it without     *)
(* suspending, and the timeout result is returned in the same step.        *)
(***************************************************************************)
DeadlineReturns(c, ok) ==
    /\ pc[c] = "communicating"
    /\ proc[c] = "reaped"
    /\ ReturnFrom(c, <<"timeout", "kill", "wait_done">>,
                  TimeoutResult(timeout), ok)
    /\ Frame
    /\ UNCHANGED << proc, signalled, status, in_time, holder, writes, out,
                    err >>

(***************************************************************************)
(* execute(), lines 121-122 and 131-136: wait_for raises TimeoutError      *)
(* before communicate() has resumed, but the event loop has reaped the     *)
(* child and closed its pipes: the transport has dropped the process and   *)
(* process.kill() raises ProcessLookupError, which leaves execute()        *)
(* through the finally block.                                              *)
(***************************************************************************)
KillRaises(c, ok) ==
    /\ pc[c] = "communicating"
    /\ proc[c] = "reaped"
    /\ holder[c] # "alive"
    /\ RaiseFrom(c, <<"timeout", "kill_failed">>, "ProcessLookupError", ok)
    /\ Frame
    /\ UNCHANGED << proc, signalled, status, in_time, holder, writes, out,
                    err >>

\* variant of WaitReturns: the result is returned right after process.kill(),
\* without awaiting process.wait()
WaitReturns_unreaped(c, ok) ==
    /\ pc[c] = "reaping"
    /\ ReturnFrom(c, <<"wait_done">>, TimeoutResult(timeout), ok)
    /\ Frame
    /\ UNCHANGED << proc, signalled, status, in_time, holder, writes, out,
                    err >>

\* variant of WaitReturns: the timeout result carries what was read of stdout
WaitReturns_partial(c, ok) ==
    /\ pc[c] = "reaping"
    /\ proc[c] = "reaped"
    /\ holder[c] # "alive"
    /\ ReturnFrom(c, <<"wait_done">>,
                  [TimeoutResult(timeout) EXCEPT !.stdout =
                      IF decode(out[c]) # None THEN decode(out[c])[1] ELSE <<>>],
                  ok)
    /\ Frame
    /\ UNCHANGED << proc, signalled, status, in_time, holder, writes, out,
                    err >>

(***************************************************************************)
(* execute(), lines 123-136: process.wait() returns, the timeout result is *)
(* returned through the finally block.  The waiter of process.wait() is    *)
(* woken when the transport is finished: the child is reaped and both      *)
(* pipes have reached end of file.                                         *)
(***************************************************************************)
WaitReturns(c, ok) ==
    /\ pc[c] = "reaping"
    /\ proc[c] = "reaped"
    /\ holder[c] # "alive"
    /\ ReturnFrom(c, <<"wait_done">>, TimeoutResult(timeout), ok)
    /\ Frame
    /\ UNCHANGED << proc, signalled, status, in_time, holder, writes, out,
                    err >>

(***************************************************************************)
(* execute(), lines 123-136, on an interpreter whose transport wakes the   *)
(* waiters of process.wait() as soon as the child is reaped, while a       *)
(* process the child started still holds the pipes open.  Which of the two *)
(* an interpreter does depends on its version; the model allows both.      *)
(***************************************************************************)
WaitReturnsAtExit(c, ok) ==
    /\ pc[c] = "reaping"
    /\ proc[c] = "reaped"
    /\ holder[c] = "alive"
    /\ ReturnFrom(c, <<"wait_done">>, TimeoutResult(timeout), ok)
    /\ Frame
    /\ UNCHANGED << proc, signalled, status, in_time, holder, writes, out,
                    err >>

(***************************************************************************)
(* The task that awaits execute() is cancelled (cli.py stops on            *)
(* KeyboardInterrupt, which asyncio.run turns into the cancellation of the *)
(* main task): CancelledError is raised at the await the call is suspended *)
(* in.  It is not a TimeoutError, so lines 122-123 do not run; the finally *)
(* block does.  A child whose creation is cancelled is closed by asyncio.  *)
(***************************************************************************)
Cancel(c, ok) ==
    /\ pc[c] \in {"spawning", "communicating", "reaping"}
    /\ RaiseFrom(c, <<"cancelled">>, "CancelledError", ok)
    /\ Frame
    /\ UNCHANGED << proc, signalled, status, in_time, holder, writes, out,
                    err >>

(***************************************************************************)
(* Spec: one execute() call on the executor, followed in full detail.      *)
(***************************************************************************)
Single == {1}

Next ==
    \/ \E c \in Single, prog \in Fragments : Reject(c, prog)
    \/ \E c \in Single, prog \in Fragments : ValidateRaises(c, prog)
    \/ \E c \in Single, prog \in Fragments : CreateTempFile(c, prog)
    \/ \E c \in Single, prog \in Fragments : WriteFails(c, prog)
    \/ \E c \in Single : SpawnOK(c)
    \/ \E c \in Single, ok \in BOOLEAN : SpawnFails(c, ok)
    \/ \E c \in Single, stream \in {1, 2}, chunk \in Chunks :
          ChildWrite(c, stream, chunk)
    \/ \E c \in Single : ChildStartsHolder(c)
    \/ \E c \in Single : HolderExits(c)
    \/ \E c \in Single, st \in ExitStatuses : ChildExits(c, st)
    \/ \E c \in Single : ChildKilled(c)
    \/ \E c \in Single : Reaped(c)
    \/ \E c \in Single, ok \in BOOLEAN : CommunicateReturns(c, ok)
    \/ \E c \in Single : DeadlineExpires(c)
    \/ \E c \in Single, ok \in BOOLEAN : DeadlineReturns(c, ok)
    \/ \E c \in Single, ok \in BOOLEAN : KillRaises(c, ok)
    \/ \E c \in Single, ok \in BOOLEAN : WaitReturns(c, ok)
    \/ \E c \in Single, ok \in BOOLEAN : WaitReturnsAtExit(c, ok)
    \/ \E c \in Single, ok \in BOOLEAN : Cancel(c, ok)

Spec == Init /\ [][Next]_vars

(***************************************************************************)
(* Properties of execute().                                                *)
(***************************************************************************)
Rejected(c) ==
    /\ code[c] # None
    /\ validate_code(code[c][1]).raised = None
    /\ ~validate_code(code[c][1]).is_valid

\* the step of the finally block in the log of call c (0: not taken)
UnlinkAt(c) ==
    IF Logged(c, "unlink") THEN At(c, "unlink") ELSE At(c, "unlink_failed")

\* the four outcomes of a call that reached the try block: the child exited
\* (zero or non-zero), it was killed on timeout, or spawning raised
FourOutcomes(c) ==
    \/ pc[c] = "returned" /\ Logged(c, "communicate_done")
    \/ pc[c] = "returned" /\ Logged(c, "wait_done")
    \/ pc[c] = "raised" /\ Logged(c, "spawn_failed")

\* C1: a call whose input validate_code rejects has, in every state, created
\* no temporary file (no name chosen, no file step taken, no file in the
\* temporary directory) and spawned no child process.
ThmC1 ==
    \A c \in Calls :
        Rejected(c) =>
            /\ f_name[c] = 0
            /\ temp_file[c] = 0
            /\ ~Logged(c, "create")
            /\ ~Logged(c, "spawn")
            /\ ~Logged(c, "spawn_failed")
            /\ proc[c] = "none"
            /\ (\A d \in Calls : d # c => pc[d] = "idle")
                  => \A n \in Names : files[n] = "absent"

WitC1 ==
    \E c \in Calls :
        /\ Rejected(c)
        /\ pc[c] = "returned"
        /\ result[c] # None

\* C2: a call whose spawn failed finishes by returning a result with
\* success = FALSE and an error exit code, never by raising.
CexC2 ==
    \A c \in Calls :
        (Finished(c) /\ Logged(c, "spawn_failed")) =>
            /\ pc[c] = "returned"
            /\ exc[c] = None
            /\ result[c] # None
            /\ result[c][1].success = FALSE
            /\ result[c][1].exit_code # 0

\* C3 as stated: after a call that ended in one of the four outcomes, the
\* temporary file it created does not exist.
CexC3 ==
    \A c \in Calls :
        (Finished(c) /\ FourOutcomes(c)) => files[f_name[c]] = "absent"

\* C3 as amended: after a call that ended in one of the four outcomes, the
\* removal of the temporary file the call created has been attempted exactly
\* once, as the last step before control left execute(); the file does not
\* exist if the removal succeeded, and is left as written if it failed.
ThmC3 ==
    \A c \in Calls :
        (Finished(c) /\ FourOutcomes(c)) =>
            /\ f_name[c] # 0
            /\ temp_file[c] = f_name[c]
            /\ Logged(c, "unlink") # Logged(c, "unlink_failed")
            /\ Len(SelectSeq(log[c],
                    LAMBDA e : e \in {"unlink", "unlink_failed"})) = 1
            /\ UnlinkAt(c) = Len(log[c]) - 1
            /\ Logged(c, "unlink") => files[f_name[c]] = "absent"
            /\ Logged(c, "unlink_failed") => files[f_name[c]] = "complete"

WitC3 ==
    \E c \in Calls :
        /\ pc[c] = "raised"
        /\ Logged(c, "spawn_failed")
        /\ Logged(c, "unlink")
        /\ files[f_name[c]] = "absent"

\* C4: once a call has finished (returned or raised, cancellation included),
\* its child process is not running any more.
CexC4 ==
    \A c \in Calls : Finished(c) => proc[c] # "running"

TimeoutText ==
    <<"Execution timeout after ">>
        \o (IF timeout = 5 THEN <<"5">> ELSE <<"3", "0">>)
        \o <<" seconds">>

\* C6: a result returned on the deadline-expiry path is exactly
\* {success: False, stdout: "", stderr: "Execution timeout after <timeout>
\* seconds", exit_code: -1}, whatever the child wrote to its pipes.
ThmC6 ==
    \A c \in Calls :
        (pc[c] = "returned" /\ Logged(c, "timeout")) =>
            result[c] = Some([success |-> FALSE,
                              stdout |-> <<>>,
                              stderr |-> TimeoutText,
                              exit_code |-> -1])

WitC6 ==
    \E c \in Calls :
        /\ pc[c] = "returned"
        /\ Logged(c, "timeout")
        /\ out[c] # <<>>
        /\ result[c][1].stdout = <<>>

\* C7, in the case the claim includes by name: a call whose child terminated by
\* itself before the deadline expired, while a process the child started holds
\* its output pipes open, returns the Completed result: the child's exit
\* status, everything it wrote, success iff the status is 0.
CexC7 ==
    \A c \in Calls :
        (Finished(c) /\ in_time[c] /\ holder[c] = "alive"
            /\ ~Logged(c, "cancelled")) =>
            /\ pc[c] = "returned"
            /\ result[c] # None
            /\ result[c][1].exit_code = status[c][1]
            /\ result[c][1].success = (status[c][1] = 0)
            /\ Some(result[c][1].stdout) = decode(out[c])
            /\ Some(result[c][1].stderr) = decode(err[c])

\* C8: in every result execute() returned, success is TRUE iff exit_code is 0.
ThmC8 ==
    \A c \in Calls :
        result[c] # None =>
            (result[c][1].success <=> (result[c][1].exit_code = 0))

WitC8 ==
    \E c \in Calls :
        /\ result[c] # None
        /\ Logged(c, "communicate_done")
        /\ result[c][1].success

\* C9: a returned result has exit_code -1 iff the call took the
\* deadline-expiry path.
CexC9 ==
    \A c \in Calls :
        result[c] # None =>
            ((result[c][1].exit_code = -1) <=> Logged(c, "timeout"))

\* C10: every returned result with success = FALSE has a non-empty stderr.
CexC10 ==
    \A c \in Calls :
        (result[c] # None /\ ~result[c][1].success) =>
            result[c][1].stderr # <<>>

\* the terminal states of the lifecycle that the finished call c is in
TerminalStates(c) ==
    { t \in {"Rejected", "Completed", "TimedOut", "SpawnFailed"} :
        \/ t = "Rejected" /\ pc[c] = "returned" /\ Logged(c, "rejected")
        \/ t = "Completed" /\ pc[c] = "returned" /\ Logged(c, "communicate_done")
        \/ t = "TimedOut" /\ pc[c] = "returned" /\ Logged(c, "wait_done")
        \/ t = "SpawnFailed" /\ Finished(c) /\ Logged(c, "spawn_failed") }

\* C11, in the case the claim names (the deadline expires while the child
\* exits): a finished call that was not cancelled is in exactly one of the
\* terminal states Rejected, Completed, TimedOut, SpawnFailed, and if it
\* created a temporary file the removal step has run.
CexC11 ==
    \A c \in Calls :
        (Finished(c) /\ Logged(c, "timeout") /\ ~Logged(c, "cancelled")) =>
            /\ Cardinality(TerminalStates(c)) = 1
            /\ f_name[c] # 0 => UnlinkAt(c) # 0

(***************************************************************************)
(* SpecLive: Spec with the scheduling the program can rely on.  The event  *)
(* loop resumes a coroutine whose await is complete (spawn, communicate,   *)
(* wait), the deadline timer fires, the kernel delivers a pending SIGKILL  *)
(* and the event loop reaps a terminated child.  Nothing obliges the child *)
(* or a process it started to terminate by itself, the removal to fail, or *)
(* the caller to cancel.                                                   *)
(***************************************************************************)
DeadlineTimer(c) ==
    \/ DeadlineExpires(c)
    \/ \E ok \in BOOLEAN : DeadlineReturns(c, ok)
    \/ \E ok \in BOOLEAN : KillRaises(c, ok)

Fairness ==
    \A c \in Single :
        /\ WF_vars(SpawnOK(c) \/ \E ok \in BOOLEAN : SpawnFails(c, ok))
        /\ WF_vars(DeadlineTimer(c))
        /\ WF_vars(ChildKilled(c))
        /\ WF_vars(Reaped(c))
        /\ WF_vars(\E ok \in BOOLEAN : WaitReturns(c, ok))

SpecLive == Spec /\ Fairness

\* C12: every call on an accepted fragment eventually finishes (returns or
\* raises), whatever its child does.
CexC12 ==
    \A c \in Calls : (pc[c] = "spawning") ~> Finished(c)

\* C13: a finished call on accepted input, none of whose removals failed, has
\* created exactly one temporary file and that file is gone; it spawned at
\* most one child, and sent it a kill signal only on the timeout path.
CexC13 ==
    \A c \in Calls :
        (/\ Finished(c)
         /\ code[c] # None
         /\ validate_code(code[c][1]).is_valid
         /\ ~Logged(c, "unlink_failed")) =>
            /\ Len(SelectSeq(log[c], LAMBDA e : e = "create")) = 1
            /\ f_name[c] # 0
            /\ files[f_name[c]] = "absent"
            /\ Len(SelectSeq(log[c], LAMBDA e : e = "spawn")) <= 1
            /\ Logged(c, "kill") => Logged(c, "timeout")

(***************************************************************************)
(* validate_code called directly, outside execute().                       *)
(***************************************************************************)
\* variant of ValidateCall: the validator stores into the executor
ValidateCall_storing(prog) ==
    /\ validate_code(prog).raised = None
    /\ verdicts' = [verdicts EXCEPT ![prog] = @ \cup { validate_code(prog) }]
    /\ timeout' = 30
    /\ UNCHANGED outside
    /\ UNCHANGED << pc, code, f_name, temp_file, files, proc, signalled,
                    status, in_time, holder, writes, out, err, result, exc,
                    log, waited >>

\* validate_code (lines 32-55) returns its pair; it assigns nothing
ValidateCall(prog) ==
    /\ validate_code(prog).raised = None
    /\ verdicts' = [verdicts EXCEPT ![prog] = @ \cup { validate_code(prog) }]
    /\ UNCHANGED << executor_vars, outside >>

(***************************************************************************)
(* SpecConc: every call of Calls runs on the one CodeExecutor, interleaved *)
(* step by step.  Each call is given the fragment print(<its number>); its *)
(* child writes that number to stdout and exits with status 0, or is       *)
(* killed at the deadline of its call.                                     *)
(***************************************************************************)
\* what the child of call c writes: the digit of c, in UTF-8
Greeting(c) == << 48 + c >>

NextConc ==
    \/ ValidateCall(P_os)
    \/ \E c \in Calls : Reject(c, P_os)
    \/ \E c \in Calls : CreateTempFile(c, P_plain)
    \/ \E c \in Calls : SpawnOK(c)
    \/ \E c \in Calls : ChildWrite(c, 1, Greeting(c))
    \/ \E c \in Calls : ChildExits(c, 0)
    \/ \E c \in Calls : ChildKilled(c)
    \/ \E c \in Calls : Reaped(c)
    \/ \E c \in Calls : CommunicateReturns(c, TRUE)
    \/ \E c \in Calls : DeadlineExpires(c)
    \/ \E c \in Calls : DeadlineReturns(c, TRUE)
    \/ \E c \in Calls : KillRaises(c, TRUE)
    \/ \E c \in Calls : WaitReturns(c, TRUE)

SpecConc == Init /\ [][NextConc]_vars

\* call c has created its temporary file and has not finished
InFlight(c) == pc[c] \in {"spawning", "communicating", "reaping"}

\* C14: in every state of every interleaving of the calls: two calls in
\* flight have different temporary files; the file of a call in flight is
\* there as written (no other call removed it); a child has been sent a kill
\* signal only by the deadline of its own call; a Completed result holds the
\* status of the call's own child and the digits its own child wrote, a
\* timeout result the timeout message.
ThmC14 ==
    \A c \in Calls :
        /\ \A d \in Calls \ {c} :
              (InFlight(c) /\ InFlight(d)) => temp_file[c] # temp_file[d]
        /\ InFlight(c) => files[temp_file[c]] = "complete"
        /\ (signalled[c] \/ status[c] = Some(SIGKILLED)) => Logged(c, "kill")
        /\ (pc[c] = "returned" /\ Logged(c, "communicate_done")) =>
              /\ result[c][1].exit_code = status[c][1]
              /\ result[c][1].success
              /\ Some(result[c][1].stdout) = decode(out[c])
              /\ \A i \in 1..Len(result[c][1].stdout) :
                    result[c][1].stdout[i] = Digits[c + 1]
        /\ (pc[c] = "returned" /\ Logged(c, "timeout")) =>
              result[c] = Some([success |-> FALSE, stdout |-> <<>>,
                                stderr |-> TimeoutText, exit_code |-> -1])

\* call 1 was killed at its deadline while call 2, whose file had another
\* name, completed with its own output
WitC14 ==
    /\ pc[1] = "returned"
    /\ Logged(1, "timeout")
    /\ status[1] = Some(SIGKILLED)
    /\ pc[2] = "returned"
    /\ Logged(2, "communicate_done")
    /\ result[2][1].stdout = <<"2">>
    /\ temp_file[1] # temp_file[2]

\* the names of the modules an import node imports: the names of a plain
\* import; for a from-import the module named after "from" (if any) and, for
\* each imported name, the submodule of that name ("asyncio.subprocess" for
\* "from asyncio import subprocess", ".os" for "from . import os")
ImportedModules(node) ==
    IF node.type = "Import"
    THEN { node.names[i] : i \in 1..Len(node.names) }
    ELSE (IF node.module # None THEN { node.module[1] } ELSE {})
         \cup { (IF node.module # None THEN node.module[1] ELSE <<>>)
                    \o <<".">> \o node.names[i] : i \in 1..Len(node.names) }

ImportsDenylisted(tree) ==
    \E i \in 1..Len(tree) : \E n \in ImportedModules(tree[i]) : IsDangerous(n)

IsParsed(prog) == prog.syntax_error = None /\ prog.parser_error = None

\* C15: for every parsed program handed to execute(), validate_code rejects
\* it iff some import statement of its tree imports a module whose name
\* contains a denylisted token; otherwise it returns (True, None).
CexC15 ==
    \A c \in Calls :
        (code[c] # None /\ IsParsed(code[c][1])) =>
            /\ validate_code(code[c][1]).raised = None
            /\ ~validate_code(code[c][1]).is_valid
                  <=> ImportsDenylisted(code[c][1].tree)
            /\ validate_code(code[c][1]).is_valid
                  => validate_code(code[c][1]).error = None

\* C16: a finished call whose input the parser could not parse has returned
\* (not raised) a result with success = FALSE whose stderr is
\* "Syntax error: <parser message>".
CexC16 ==
    \A c \in Calls :
        (Finished(c) /\ code[c] # None /\ ~IsParsed(code[c][1])) =>
            /\ pc[c] = "returned"
            /\ exc[c] = None
            /\ result[c] # None
            /\ ~result[c][1].success
            /\ result[c][1].stderr # <<>>
            /\ Head(result[c][1].stderr) = "Syntax error: "

\* C17: a call whose input validate_code rejected with reason r has returned
\* exactly {success: False, stdout: "", stderr: r, exit_code: 1}.  For a
\* forbidden import, r is "Forbidden import: " followed by the name of a
\* module of the program that contains a denylisted token: "os" for
\* "import os", "sys" for "import json, sys", "os.path" for
\* "from os.path import join", "osprey" for the nested "import osprey".
ThmC17 ==
    \A c \in Calls :
        (Finished(c) /\ Rejected(c)) =>
            /\ result[c] # None
            /\ exc[c] = None
            /\ result[c][1] = [success |-> FALSE,
                               stdout |-> <<>>,
                               stderr |-> validate_code(code[c][1]).error[1],
                               exit_code |-> 1]
            /\ IsParsed(code[c][1]) =>
                  /\ Head(result[c][1].stderr) = "Forbidden import: "
                  /\ IsDangerous(Tail(result[c][1].stderr))
                  /\ \E i \in 1..Len(code[c][1].tree) :
                        Tail(result[c][1].stderr)
                            \in ImportedModules(code[c][1].tree[i])
            /\ code[c][1] = P_os =>
                  result[c][1].stderr = <<"Forbidden import: ">> \o n_os
            /\ code[c][1] = P_json_sys =>
                  result[c][1].stderr = <<"Forbidden import: ">> \o n_sys
            /\ code[c][1] = P_from_os_path =>
                  result[c][1].stderr = <<"Forbidden import: ">> \o n_os_path
            /\ code[c][1] = P_nested_osprey =>
                  result[c][1].stderr = <<"Forbidden import: ">> \o n_osprey
            /\ code[c][1] = P_syntax =>
                  result[c][1].stderr
                      = <<"Syntax error: ", "'(' was never closed">>

WitC17 ==
    \E c \in Calls :
        /\ pc[c] = "returned"
        /\ code[c] = Some(P_from_os_path)
        /\ result[c] # None
        /\ result[c][1].exit_code = 1
        /\ result[c][1].stderr = <<"Forbidden import: ">> \o n_os_path

\* C18: in the file a running child executes, no name bound by the prelude
\* is on the denylist: every denylisted name of the file's namespace is bound
\* by an import of the fragment itself.
CexC18 ==
    \A c \in Calls :
        proc[c] = "running" =>
            /\ \A n \in Namespace(Prelude) : ~IsDangerous(n)
            /\ \A n \in Namespace(full_code(code[c][1])) :
                  IsDangerous(n) => n \in Namespace(code[c][1].tree)

\* C19: the temporary file is written before the child is spawned, and as
\* long as the child is running and has not been sent a kill signal the file
\* is there as written.
CexC19 ==
    \A c \in Calls :
        /\ Logged(c, "spawn") =>
              /\ 0 < At(c, "write")
              /\ At(c, "write") < At(c, "spawn")
        /\ (proc[c] = "running" /\ ~Logged(c, "kill")) =>
              /\ temp_file[c] # 0
              /\ files[temp_file[c]] = "complete"

\* C20: a call whose removal of the temporary file failed has finished as it
\* would have otherwise: a timed-out call returned the timeout result, a call
\* whose communicate() completed returned the Completed result of its child
\* (or raised UnicodeDecodeError when a stream was not UTF-8), and the calls
\* that were raising (spawn failure, kill failure, cancellation) raised that
\* same exception; the file is left as written.
ThmC20 ==
    \A c \in Calls :
        (Finished(c) /\ Logged(c, "unlink_failed")) =>
            /\ files[temp_file[c]] = "complete"
            /\ (pc[c] = "returned") = (exc[c] = None)
            /\ (pc[c] = "raised") = (result[c] = None)
            /\ Logged(c, "wait_done") =>
                  result[c] = Some(TimeoutResult(timeout))
            /\ Logged(c, "communicate_done") =>
                  IF decode(out[c]) # None /\ decode(err[c]) # None
                  THEN result[c] = Some(CompletedResult(status[c][1],
                                                        decode(out[c])[1],
                                                        decode(err[c])[1]))
                  ELSE exc[c] = Some("UnicodeDecodeError")
            /\ Logged(c, "spawn_failed") => exc[c] = Some("OSError")
            /\ Logged(c, "kill_failed") => exc[c] = Some("ProcessLookupError")
            /\ Logged(c, "cancelled") => exc[c] = Some("CancelledError")

WitC20 ==
    \E c \in Calls :
        /\ pc[c] = "returned"
        /\ Logged(c, "unlink_failed")
        /\ Logged(c, "communicate_done")
        /\ result[c][1].success
        /\ files[temp_file[c]] = "complete"

(***************************************************************************)
(* SpecValidate: validate_code is called directly, any number of times and *)
(* on any program, between the steps of an execute() call.                 *)
(***************************************************************************)
NextValidate ==
    \/ \E prog \in Programs : ValidateCall(prog)
    \/ \E c \in Single, prog \in Fragments : Reject(c, prog)
    \/ \E c \in Single : CreateTempFile(c, P_json)
    \/ \E c \in Single : SpawnOK(c)
    \/ \E c \in Single, st \in ExitStatuses : ChildExits(c, st)
    \/ \E c \in Single : Reaped(c)
    \/ \E c \in Single : CommunicateReturns(c, TRUE)

SpecValidate == Init /\ [][NextValidate]_vars

ThmC22 ==
    /\ [][timeout' = timeout]_vars
    /\ [](timeout \in Nat \ {0})
    /\ [](\A c \in Calls :
            /\ waited[c] # 0 => waited[c] = timeout
            /\ Logged(c, "spawn") => waited[c] = timeout
            /\ (pc[c] = "returned" /\ Logged(c, "timeout")) =>
                  result[c][1].stderr
                      = <<"Execution timeout after ">> \o str(waited[c])
                            \o <<" seconds">>)

\* two calls of an executor built with timeout 5 both waited with 5; one of
\* them timed out and says so, after validate_code was called as well
WitC22 ==
    /\ timeout = 5
    /\ verdicts[P_os] # {}
    /\ waited[1] = 5
    /\ waited[2] = 5
    /\ pc[1] = "returned"
    /\ Logged(1, "communicate_done")
    /\ pc[2] = "returned"
    /\ Logged(2, "timeout")
    /\ result[2][1].stderr = <<"Execution timeout after ", "5", " seconds">>

(***************************************************************************)
(* SpecSeq: the calls are made one after the other, each after the one     *)
(* before has finished, all with the fragment of the first call.  The      *)
(* fragment is deterministic: the child of a later call does what the      *)
(* child of call 1 did (the same writes, the same exit status), and it     *)
(* outlasts the deadline iff the child of call 1 did.                      *)
(***************************************************************************)
IsPrefix(s, t) == Len(s) <= Len(t) /\ SubSeq(t, 1, Len(s)) = s

\* call c may begin: every call before it has finished
Sequential(c) == \A d \in Calls : d < c => Finished(d)

\* the child of call 1 terminated by itself, before any deadline
FirstWasFast == in_time[1] /\ ~Logged(1, "timeout")

NextSeq ==
    \/ \E prog \in {P_plain, P_json} : CreateTempFile(1, prog)
    \/ \E c \in Calls \ {1} :
          Sequential(c) /\ CreateTempFile(c, code[1][1])
    \/ \E c \in Calls : SpawnOK(c)
    \/ \E stream \in {1, 2}, chunk \in Chunks : ChildWrite(1, stream, chunk)
    \/ \E c \in Calls \ {1}, stream \in {1, 2}, chunk \in Chunks :
          /\ IsPrefix(IF stream = 1 THEN out[c] \o chunk ELSE out[c], out[1])
          /\ IsPrefix(IF stream = 2 THEN err[c] \o chunk ELSE err[c], err[1])
          /\ ChildWrite(c, stream, chunk)
    \/ \E st \in ExitStatuses : pc[1] = "communicating" /\ ChildExits(1, st)
    \/ \E c \in Calls \ {1} :
          /\ FirstWasFast
          /\ out[c] = out[1]
          /\ err[c] = err[1]
          /\ ChildExits(c, status[1][1])
    \/ proc[1] = "running" /\ DeadlineExpires(1)
    \/ \E c \in Calls \ {1} :
          proc[c] = "running" /\ Logged(1, "timeout") /\ DeadlineExpires(c)
    \/ \E c \in Calls : ChildKilled(c)
    \/ \E c \in Calls : Reaped(c)
    \/ \E c \in Calls : CommunicateReturns(c, TRUE)
    \/ \E c \in Calls : WaitReturns(c, TRUE)

SpecSeq == Init /\ [][NextSeq]_vars

ExecResults ==
    { CompletedResult(0, <<"done">>, <<>>),
      CompletedResult(1, <<>>, <<"Traceback">>),
      CompletedResult(1, <<>>, <<>>),
      RejectedResult(validate_code(P_os).error[1]),
      TimeoutResult(60) }

\* what executor.execute(code) raises (see SpawnFails, KillRaises,
\* CommunicateReturns, ValidateRaises, Cancel)
ExecExceptions ==
    { "OSError", "ProcessLookupError", "UnicodeDecodeError", "RecursionError",
      "CancelledError" }

\* what self.llm.ainvoke raises: an error of the API, or the cancellation of
\* the task
GenExceptions == { "APIError", "CancelledError" }

\* "except Exception" matches e: CancelledError and KeyboardInterrupt derive
\* from BaseException only
IsException(e) == e \notin { "CancelledError", "KeyboardInterrupt" }

\* truth value of an Optional[str]: None and "" are false
Truthy(x) == x # None /\ x[1] # <<>>

\* _generate_code, lines 187-203: the message sent for the current request
current_msg(error_context) ==
    IF Truthy(error_context)
    THEN <<"user_input", "PREVIOUS ATTEMPT FAILED WITH ERROR:">>
            \o error_context[1]
            \o <<"Please fix the code and try again.">>
    ELSE <<"user_input">>

\* lines 138-143 (the key "code" is left out: the text of the code is not
\* modelled)
SuccessDict(stdout, att) ==
    [success |-> TRUE, output |-> Some(stdout), error |-> None,
     attempts |-> att + 1]

\* lines 150-155
FailureDict(stderr, att) ==
    [success |-> FALSE, output |-> None, error |-> Some(stderr),
     attempts |-> att + 1]

\* variant of FaultDict: the fault is reported as a success
FaultDict_success(e, att) ==
    [success |-> TRUE, output |-> None, error |-> Some(<<e>>),
     attempts |-> att + 1]

\* lines 161-165: str(e) is the one-token text of e
FaultDict(e, att) ==
    [success |-> FALSE, output |-> None, error |-> Some(<<e>>),
     attempts |-> att + 1]

\* lines 167-171
ExceededDict(att) ==
    [success |-> FALSE, output |-> None,
     error |-> Some(<<"Max retries exceeded">>), attempts |-> att + 1]

\* line 117 with attempt = att and last_error = error: the test of the while
\* loop, then lines 118-120 and 173-206 up to the await of the model, or
\* lines 167-171
EnterLoop(att, error, mr) ==
    /\ attempt' = att
    /\ last_error' = error
    /\ IF att <= mr
       THEN /\ prompts' = Append(prompts, current_msg(error))
            /\ a_pc' = "generating"
            /\ run_result' = run_result
       ELSE /\ prompts' = prompts
            /\ a_pc' = "returned"
            /\ run_result' = Some(ExceededDict(att))

\* what no step of run() touches
AgentFrame == UNCHANGED << executor_vars, verdicts, client_vars, indent_vars >>

\* run(user_input, mr) is called: lines 108-120
RunStart(mr) ==
    /\ a_pc = "idle"
    /\ max_retries' = mr
    /\ history' = Append(history, "user")
    /\ EnterLoop(0, None, mr)
    /\ UNCHANGED << failures, fault, run_exc >>
    /\ AgentFrame

\* lines 120-129: _generate_code returns the code, execute(code) is awaited
GenerateReturns ==
    /\ a_pc = "generating"
    /\ a_pc' = "executing"
    /\ UNCHANGED << max_retries, attempt, last_error, history, prompts,
                    failures, fault, run_result, run_exc >>
    /\ AgentFrame

\* lines 160-165: the exception e arrives at the try block of run()
Fault(e) ==
    /\ fault' = Some(e)
    /\ IF IsException(e)
       THEN /\ a_pc' = "returned"
            /\ run_result' = Some(FaultDict(e, attempt))
            /\ run_exc' = run_exc
       ELSE /\ a_pc' = "raised"
            /\ run_result' = run_result
            /\ run_exc' = Some(e)
    /\ UNCHANGED << max_retries, attempt, last_error, history, prompts,
                    failures >>
    /\ AgentFrame

\* line 120: _generate_code raises e
GenerateRaises(e) ==
    /\ a_pc = "generating"
    /\ Fault(e)

\* line 129: execute(code) raises e
ExecuteRaises(e) ==
    /\ a_pc = "executing"
    /\ Fault(e)

\* variant of ExecuteReturns: a failed execution always goes round the loop
ExecuteReturns_unchecked(r) ==
    /\ a_pc = "executing"
    /\ IF r.success
       THEN /\ history' = Append(history, "assistant")
            /\ run_result' = Some(SuccessDict(r.stdout, attempt))
            /\ a_pc' = "returned"
            /\ UNCHANGED << attempt, last_error, prompts, failures >>
       ELSE /\ failures' = Append(failures, r.stderr)
            /\ history' = history
            /\ EnterLoop(attempt + 1, Some(r.stderr), max_retries)
    /\ UNCHANGED << max_retries, fault, run_exc >>
    /\ AgentFrame

\* lines 129-158: execute(code) returns r
ExecuteReturns(r) ==
    /\ a_pc = "executing"
    /\ IF r.success
       THEN /\ history' = Append(history, "assistant")
            /\ run_result' = Some(SuccessDict(r.stdout, attempt))
            /\ a_pc' = "returned"
            /\ UNCHANGED << attempt, last_error, prompts, failures >>
       ELSE /\ failures' = Append(failures, r.stderr)
            /\ history' = history
            /\ IF attempt = max_retries
               THEN /\ last_error' = Some(r.stderr)
                    /\ run_result' = Some(FailureDict(r.stderr, attempt))
                    /\ a_pc' = "returned"
                    /\ UNCHANGED << attempt, prompts >>
               ELSE EnterLoop(attempt + 1, Some(r.stderr), max_retries)
    /\ UNCHANGED << max_retries, fault, run_exc >>
    /\ AgentFrame

NextAgent ==
    \/ \E mr \in 0..MaxRetries : RunStart(mr)
    \/ GenerateReturns
    \/ \E e \in GenExceptions : GenerateRaises(e)
    \/ \E r \in ExecResults : ExecuteReturns(r)
    \/ \E e \in ExecExceptions : ExecuteRaises(e)

SpecAgent == Init /\ [][NextAgent]_vars

\* every await of run() completes: the model answers or fails, execute()
\* returns or raises
AgentFairness ==
    /\ WF_vars(GenerateReturns \/ \E e \in GenExceptions : GenerateRaises(e))
    /\ WF_vars((\E r \in ExecResults : ExecuteReturns(r))
                  \/ \E e \in ExecExceptions : ExecuteRaises(e))

SpecAgentLive == SpecAgent /\ AgentFairness

(***************************************************************************)
(* Properties of run().                                                    *)
(***************************************************************************)
\* run() has returned the failure dictionary for the exception e, and made
\* no attempt after the one in which e was raised
ReturnedFault(e) ==
    /\ a_pc = "returned"
    /\ run_exc = None
    /\ run_result # None
    /\ ~run_result[1].success
    /\ run_result[1].error = Some(<<e>>)
    /\ run_result[1].attempts = Len(prompts)
    /\ Len(prompts) = attempt + 1

\* C24 as stated: whenever _generate_code or execute() has raised an
\* exception during an attempt, run() has returned a dictionary with
\* success = FALSE and the text of the exception, has raised nothing, and
\* has made no further attempt.
CexC24 ==
    fault # None => ReturnedFault(fault[1])

\* C24 as amended: that holds for every exception that derives from
\* Exception; a CancelledError (the task that runs run() was cancelled)
\* leaves run() as an exception, and no further attempt is made either.
ThmC24 ==
    fault # None =>
        IF IsException(fault[1])
        THEN ReturnedFault(fault[1])
        ELSE /\ a_pc = "raised"
             /\ run_exc = fault
             /\ run_result = None
             /\ Len(prompts) = attempt + 1

\* execute() raised OSError in the second attempt
WitC24 ==
    /\ fault = Some("OSError")
    /\ attempt = 1
    /\ Len(failures) = 1
    /\ a_pc = "returned"
    /\ run_result = Some(FaultDict("OSError", 1))

Feedback(stderr) ==
    <<"user_input", "PREVIOUS ATTEMPT FAILED WITH ERROR:">> \o stderr
        \o <<"Please fix the code and try again.">>

\* C27: the first attempt is generated from the user input alone, and the
\* attempt that follows the i-th failed execution from the user input with
\* the stderr of that execution in the "PREVIOUS ATTEMPT FAILED WITH ERROR"
\* block.
CexC27 ==
    /\ prompts # <<>> => prompts[1] = <<"user_input">>
    /\ \A i \in 2..Len(prompts) : prompts[i] = Feedback(failures[i - 1])

(***************************************************************************)
(* airtable_client.py: AirtableMCPClient, the module-level _global_client, *)
(* call_mcp_tool and the airtable_client context manager; and the wrapper  *)
(* update_records (servers/airtable/update_records.py).  The code runs in  *)
(* one event loop: a step is what a coroutine does between two suspending  *)
(* awaits.                                                                 *)
(***************************************************************************)
\* what no step of the client touches
ClientFrame == UNCHANGED << executor_vars, verdicts, agent_vars, indent_vars >>

\* the next client object to be created
HasNewClient == \E k \in Clients : session[k] = "unborn"
NewClient ==
    CHOOSE k \in Clients :
        /\ session[k] = "unborn"
        /\ \A j \in Clients : j < k => session[j] # "unborn"

\* the numbers of records update_records is called with
RecordCounts == {0, 10, 11}

\* AirtableMCPClient(url), lines 18-27, made by hand and not connected
Construct ==
    /\ HasNewClient
    /\ session' = [session EXCEPT ![NewClient] = "none"]
    /\ request_id' = [request_id EXCEPT ![NewClient] = 0]
    /\ UNCHANGED << global_client, block, sent, pending, outcome >>
    /\ ClientFrame

\* "async with airtable_client(url)" is entered, lines 195-200: the client is
\* created and connected (connect() suspends nowhere) and made the global one
EnterBlock ==
    /\ HasNewClient
    /\ session' = [session EXCEPT ![NewClient] = "open"]
    /\ request_id' = [request_id EXCEPT ![NewClient] = 0]
    /\ global_client' = NewClient
    /\ block' = [block EXCEPT ![NewClient] = "body"]
    /\ UNCHANGED << sent, pending, outcome >>
    /\ ClientFrame

\* the block of client k is left, lines 201-202 and 33-36
ExitBlock(k) ==
    /\ block[k] = "body"
    /\ block' = [block EXCEPT ![k] = "exited"]
    /\ session' = [session EXCEPT ![k] = "closed"]
    /\ UNCHANGED << request_id, global_client, sent, pending, outcome >>
    /\ ClientFrame

\* the record of a call: the function called, its argument n (records), the
\* block from whose body it was made (0: none), the number of times
\* call_mcp_tool was invoked, the exception raised (None: the request is on
\* its way) and the requests it posted
Outcome(op, n, from, invoked, raised, requests) ==
    [op |-> op, n |-> n, from |-> from, invoked |-> invoked,
     raised |-> raised, requests |-> requests]

\* variant of call_tool: the id of the payload is not increased
call_tool_same_id(k, tool, n, from, invoked) ==
    IF session[k] = "none"
    THEN /\ outcome' = Some(Outcome(tool, n, from, invoked,
                                    Some("RuntimeError"), <<>>))
         /\ UNCHANGED << request_id, sent, pending >>
    ELSE /\ request_id' = request_id
         /\ IF session[k] = "closed"
            THEN /\ outcome' = Some(Outcome(tool, n, from, invoked,
                                            Some("RuntimeError"), <<>>))
                 /\ UNCHANGED << sent, pending >>
            ELSE /\ sent' = Append(sent,
                                   [client |-> k, id |-> request_id[k] + 1,
                                    tool |-> tool, from |-> from])
                 /\ pending' = pending \cup { Len(sent) + 1 }
                 /\ outcome' = Some(Outcome(tool, n, from, invoked, None,
                                            << [client |-> k,
                                                id |-> request_id[k] + 1,
                                                tool |-> tool,
                                                from |-> from] >>))

\* client k's call_tool (lines 86-106) or list_tools (lines 130-147), up to
\* the await of session.post: a client without a session raises
\* RuntimeError; otherwise the id is increased and the payload posted, which
\* raises RuntimeError("Session is closed") on a closed session
call_tool(k, tool, n, from, invoked) ==
    IF session[k] = "none"
    THEN /\ outcome' = Some(Outcome(tool, n, from, invoked,
                                    Some("RuntimeError"), <<>>))
         /\ UNCHANGED << request_id, sent, pending >>
    ELSE /\ request_id' = [request_id EXCEPT ![k] = @ + 1]
         /\ IF session[k] = "closed"
            THEN /\ outcome' = Some(Outcome(tool, n, from, invoked,
                                            Some("RuntimeError"), <<>>))
                 /\ UNCHANGED << sent, pending >>
            ELSE /\ sent' = Append(sent,
                                   [client |-> k, id |-> request_id[k] + 1,
                                    tool |-> tool, from |-> from])
                 /\ pending' = pending \cup { Len(sent) + 1 }
                 /\ outcome' = Some(Outcome(tool, n, from, invoked, None,
                                            << [client |-> k,
                                                id |-> request_id[k] + 1,
                                                tool |-> tool,
                                                from |-> from] >>))

\* call_mcp_tool(tool, arguments), lines 172-182
call_mcp_tool(tool, n, from) ==
    IF global_client = 0
    THEN /\ outcome' = Some(Outcome(tool, n, from, 1, Some("RuntimeError"),
                                    <<>>))
         /\ UNCHANGED << request_id, sent, pending >>
    ELSE call_tool(global_client, tool, n, from, 1)

\* where a call is made from: the body of an open block, or outside (0)
Places == {0} \cup { k \in Clients : block[k] = "body" }

\* the model follows the clients up to MaxRequests calls that take an id
IdsTaken ==
    Cardinality({ ki \in Clients \X (1..MaxRequests) : ki[2] <= request_id[ki[1]] })
MayCall == IdsTaken < MaxRequests

\* client.list_tools() called on the client object k
ListTools(k) ==
    /\ session[k] # "unborn"
    /\ MayCall
    /\ call_tool(k, "list_tools", 0, IF block[k] = "body" THEN k ELSE 0, 0)
    /\ UNCHANGED << session, global_client, block >>
    /\ ClientFrame

\* a wrapper without a limit (list_bases) is called at the place from
ListBases(from) ==
    /\ from \in Places
    /\ MayCall
    /\ call_mcp_tool("list_bases", 0, from)
    /\ UNCHANGED << session, global_client, block >>
    /\ ClientFrame

\* variant of update_records: the length of the list is not checked
update_records_unchecked(n, from) ==
    /\ from \in Places
    /\ MayCall
    /\ call_mcp_tool("update_records", n, from)
    /\ UNCHANGED << session, global_client, block >>
    /\ ClientFrame

\* update_records(base_id, table_id, records) with len(records) = n is
\* called at the place from (update_records.py, lines 33-42)
update_records(n, from) ==
    /\ from \in Places
    /\ MayCall
    /\ IF n > 10
       THEN /\ outcome' = Some(Outcome("update_records", n, from, 0,
                                       Some("ValueError"), <<>>))
            /\ UNCHANGED << request_id, sent, pending >>
       ELSE call_mcp_tool("update_records", n, from)
    /\ UNCHANGED << session, global_client, block >>
    /\ ClientFrame

\* the server answers a request (lines 106-126)
Response(i) ==
    /\ i \in pending
    /\ pending' = pending \ {i}
    /\ UNCHANGED << session, request_id, global_client, block, sent, outcome >>
    /\ ClientFrame

NextClient ==
    \/ Construct
    \/ EnterBlock
    \/ \E k \in Clients : ExitBlock(k)
    \/ \E k \in Clients : ListTools(k)
    \/ \E from \in Clients \cup {0} : ListBases(from)
    \/ \E n \in RecordCounts, from \in Clients \cup {0} :
          update_records(n, from)
    \/ \E i \in 1..MaxRequests : Response(i)

\* the executor plays no part here: it is the one built with the default
InitClient == Init /\ timeout = 30

SpecClient == InitClient /\ [][NextClient]_vars

(***************************************************************************)
(* Properties of the client.                                               *)
(***************************************************************************)
\* C25: a call of update_records with more than 10 records raised
\* ValueError without invoking call_mcp_tool and without posting a request;
\* a call with 0 to 10 records invoked call_mcp_tool once, and what it
\* posted, unless the client refused (RuntimeError), is exactly one request,
\* for the tool update_records.
ThmC25 ==
    (outcome # None /\ outcome[1].op = "update_records") =>
        IF outcome[1].n > 10
        THEN /\ outcome[1].raised = Some("ValueError")
             /\ outcome[1].invoked = 0
             /\ outcome[1].requests = <<>>
        ELSE /\ outcome[1].invoked = 1
             /\ outcome[1].raised # Some("ValueError")
             /\ Len(outcome[1].requests) <= 1
             /\ outcome[1].raised = None =>
                   /\ Len(outcome[1].requests) = 1
                   /\ outcome[1].requests[1].tool = "update_records"
                   /\ \E i \in 1..Len(sent) : sent[i] = outcome[1].requests[1]

\* a call with 11 records was refused after a call with 10 had been posted
WitC25 ==
    /\ outcome # None
    /\ outcome[1].op = "update_records"
    /\ outcome[1].n = 11
    /\ outcome[1].raised = Some("ValueError")
    /\ Len(sent) = 1
    /\ sent[1].tool = "update_records"

\* C28: every request posted by a call_mcp_tool made in the body of a block
\* went through the client that block created; a call_mcp_tool made in the
\* body of a block is not refused; and the client of a block that has been
\* left is not the global client.
CexC28 ==
    /\ \A i \in 1..Len(sent) :
          (sent[i].from # 0 /\ sent[i].tool # "list_tools") =>
              sent[i].client = sent[i].from
    /\ (outcome # None /\ outcome[1].from # 0 /\ outcome[1].invoked = 1) =>
          outcome[1].raised = None
    /\ \A k \in Clients : block[k] = "exited" => global_client # k

\* the ids of the requests client k has posted, in order
IdsOf(k) ==
    LET own == SelectSeq(sent, LAMBDA r : r.client = k)
    IN  [i \in 1..Len(own) |-> own[i].id]

\* C29: the requests a client has posted carry the ids 1, 2, 3, ... in the
\* order in which they were started, whether or not earlier ones have been
\* answered; and a call on a client that was never connected raised
\* RuntimeError, posted nothing and left the id counter at 0.
ThmC29 ==
    /\ \A k \in Clients :
          /\ \A i \in 1..Len(IdsOf(k)) : IdsOf(k)[i] = i
          /\ Len(IdsOf(k)) <= request_id[k]
          /\ session[k] = "none" =>
                /\ request_id[k] = 0
                /\ IdsOf(k) = <<>>
    /\ (outcome # None /\ outcome[1].op = "list_tools"
            /\ outcome[1].from = 0 /\ outcome[1].requests = <<>>
            /\ \A k \in Clients : session[k] \in {"unborn", "none"}) =>
          outcome[1].raised = Some("RuntimeError")

\* two requests of one client are in flight together, with the ids 1 and 2,
\* and a client that was never connected exists
WitC29 ==
    /\ Len(sent) = 2
    /\ pending = {1, 2}
    /\ sent[1].client = sent[2].client
    /\ sent[1].id = 1
    /\ sent[2].id = 2
    /\ \E k \in Clients : session[k] = "none" /\ request_id[k] = 0

\* ------------------------------------------------------------------
\* _indent_code (code_executor.py, lines 138-142)
\* ------------------------------------------------------------------

\* the characters of the texts: a letter, a space, a tab and a newline
Chars == {"a", " ", "\t", "\n"}

\* the characters str.strip() removes, among Chars
Whitespace == {" ", "\t", "\n"}

Texts == UNION {[1..n -> Chars] : n \in 0..MaxLen}

Levels == 0..MaxLevels

\* s.split("\n"): the pieces between the newlines; a text without a newline,
\* the empty text included, gives one piece
RECURSIVE split(_)
split(s) ==
    IF \A i \in 1..Len(s) : s[i] # "\n"
    THEN << s >>
    ELSE LET i == CHOOSE j \in 1..Len(s) :
                      /\ s[j] = "\n"
                      /\ \A h \in 1..(j - 1) : s[h] # "\n"
         IN  << SubSeq(s, 1, i - 1) >> \o split(SubSeq(s, i + 1, Len(s)))

\* s.strip(): s without its leading and trailing whitespace
RECURSIVE strip(_)
strip(s) ==
    IF s = <<>> THEN s
    ELSE IF Head(s) \in Whitespace THEN strip(Tail(s))
    ELSE IF s[Len(s)] \in Whitespace THEN strip(SubSeq(s, 1, Len(s) - 1))
    ELSE s

\* "\n".join(lines)
RECURSIVE join(_)
join(lines) ==
    IF lines = <<>> THEN <<>>
    ELSE IF Len(lines) = 1 THEN lines[1]
    ELSE lines[1] \o << "\n" >> \o join(Tail(lines))

\* s * n for a string s: n copies of s, none when n <= 0
RECURSIVE Repeat(_, _)
Repeat(s, n) == IF n <= 0 THEN <<>> ELSE s \o Repeat(s, n - 1)

\* a variant that indents every line, blank or not
_indent_code_all(c, lv) ==
    LET indent == Repeat(<< " ", " ", " ", " " >>, lv)
        lines == split(c)
    IN  join([i \in 1..Len(lines) |-> indent \o lines[i]])

\* lines 138-142: indent + line if line.strip() else line, for every line of
\* code.split("\n"), joined by "\n"
_indent_code(c, lv) ==
    LET indent == Repeat(<< " ", " ", " ", " " >>, lv)
        lines == split(c)
    IN  join([i \in 1..Len(lines) |->
                IF strip(lines[i]) # <<>> THEN indent \o lines[i]
                ELSE lines[i]])

\* a call _indent_code(code, levels) returns
Indent ==
    /\ indented = None
    /\ indented' = Some(_indent_code(text, levels))
    /\ UNCHANGED << text, levels, executor_vars, verdicts, agent_vars,
                    client_vars >>

\* any text of at most MaxLen characters and any levels up to MaxLevels
InitIndent ==
    /\ InitExecutor
    /\ timeout = 30
    /\ NoVerdicts
    /\ NoRun
    /\ NoClients
    /\ text \in Texts
    /\ levels \in Levels
    /\ indented = None

NextIndent == Indent

SpecIndent == InitIndent /\ [][NextIndent]_vars

\* a line holds a character that is not whitespace
NonBlank(line) == \E i \in 1..Len(line) : line[i] \notin Whitespace

\* n spaces
Spaces(n) == [i \in 1..n |-> " "]

\* C30: the text _indent_code returns has as many lines as code, in the same
\* order; a line with a non-whitespace character is the line of code with
\* 4 * levels spaces before it, an empty or whitespace-only line is the line
\* of code itself; and taking the first 4 * levels characters off the
\* non-blank lines and joining the lines again gives code
ThmC30 ==
    indented # None =>
        LET old == split(text)
            new == split(indented[1])
        IN  /\ Len(new) = Len(old)
            /\ \A i \in 1..Len(old) :
                  IF NonBlank(old[i])
                  THEN new[i] = Spaces(4 * levels) \o old[i]
                  ELSE new[i] = old[i]
            /\ join([i \in 1..Len(new) |->
                        IF NonBlank(new[i])
                        THEN SubSeq(new[i], 4 * levels + 1, Len(new[i]))
                        ELSE new[i]]) = text

\* a text of three lines, a non-blank one, a whitespace-only one and an
\* empty one, has been indented by two levels
WitC30 ==
    /\ indented # None
    /\ levels = 2
    /\ text = << "a", "\n", " ", "\n" >>
    /\ indented[1] # text

====
